---- MODULE Spec2Model ----
(***************************************************************************)
(* Process table of laurel (src/src/proc/table.rs): ProcKey ordering, the  *)
(* procs / by_pid indices, insertion, lookup, labels and expiry; Record,   *)
(* Value and Key of src/src/types.rs; the /proc parsers of                 *)
(* src/src/procfs.rs.  Each part has its own specification: Spec (table),  *)
(* SpecOrd, SpecRec, SpecKey, SpecStat, SpecCgroup.                        *)
(*                                                                         *)
(* Option<T> is a sequence of length at most one: None is <<>>, Some(x) is *)
(* <<x>>.  A BTreeMap<ProcKey, _> / BTreeSet<ProcKey> is the sequence of   *)
(* its entries in storage order, searched the way the standard library    *)
(* searches a node: left to right, stopping at the first stored key that   *)
(* the probe does not compare Greater to.  Maps of at most 11 entries are  *)
(* a single node, and every table of this model stays below that.         *)
(*                                                                         *)
(* Environment: the audit subsystem never repeats an EventID, and a        *)
(* process is never its own parent (pid # ppid in add_process).            *)
(***************************************************************************)
EXTENDS Integers, Sequences, FiniteSets, TLC

\* ------------------------------------------------------------------ bounds
MaxPid == 3
MaxInitPid == 2
MaxTime == 2
MaxSeq == 2
MaxAdds == 2
MaxLabelOps == 1

Pids == 1..MaxPid
\* pids that may already run when the table is built from /proc
InitPids == 1..MaxInitPid
Times == 1..MaxTime
Seqs == 1..MaxSeq

None == <<>>
Some(x) == <<x>>

\* ------------------------------------------------------------ ProcKey, Ord
Event(ts, seq) == [tag |-> "Event", ts |-> ts, seq |-> seq]
Time(ts) == [tag |-> "Time", ts |-> ts, seq |-> 0]

EventIDs == Times \X Seqs
EventKeys == {Event(id[1], id[2]) : id \in EventIDs}
TimeKeys == {Time(t) : t \in Times}
ProcKeys == EventKeys \cup TimeKeys

time(k) == k.ts

\* Ordering of two integers, and Ordering::then
CmpInt(x, y) == IF x < y THEN "Less" ELSE IF x > y THEN "Greater" ELSE "Equal"
then(o1, o2) == IF o1 = "Equal" THEN o2 ELSE o1
\* u64::partial_cmp: always Some
PartialCmpInt(x, y) == Some(CmpInt(x, y))
unwrap_or(opt, d) == IF opt = None THEN d ELSE opt[1]

cmp(a, b) ==
    CASE a.tag = "Event" /\ b.tag = "Event" ->
            then(CmpInt(a.ts, b.ts), CmpInt(a.seq, b.seq))
      [] a.tag = "Time" /\ b.tag = "Event" ->
            unwrap_or(PartialCmpInt(a.ts, b.ts), "Less")
      [] a.tag = "Event" /\ b.tag = "Time" ->
            unwrap_or(PartialCmpInt(a.ts, b.ts), "Greater")
      [] OTHER -> CmpInt(a.ts, b.ts)

\* ---------------------------------------------------- Vec<ProcKey>::sort
\* A stable sort; for vectors of at most 20 elements, as all of by_pid are
\* here, it is an insertion sort: the tail element moves left while it is
\* less than its left neighbour.
RECURSIVE InsertTail(_, _)
InsertTail(s, x) ==
    IF s = <<>> THEN <<x>>
    ELSE IF cmp(x, s[Len(s)]) = "Less"
         THEN Append(InsertTail(SubSeq(s, 1, Len(s) - 1), x), s[Len(s)])
         ELSE Append(s, x)

RECURSIVE sortStable(_)
sortStable(v) ==
    IF v = <<>> THEN <<>>
    ELSE InsertTail(sortStable(SubSeq(v, 1, Len(v) - 1)), v[Len(v)])

\* the vector left in push order
sortNone(v) == v

\* v.sort()
sort(v) == sortStable(v)

\* ------------------------------------------- BTreeMap / BTreeSet by ProcKey
\* Index of the first stored key the probe is not Greater than (Len+1 if none)
RECURSIVE SearchFrom(_, _, _)
SearchFrom(keys, k, i) ==
    IF i > Len(keys) THEN [found |-> FALSE, idx |-> i]
    ELSE CASE cmp(k, keys[i]) = "Greater" -> SearchFrom(keys, k, i + 1)
           [] cmp(k, keys[i]) = "Equal" -> [found |-> TRUE, idx |-> i]
           [] OTHER -> [found |-> FALSE, idx |-> i]

Search(keys, k) == SearchFrom(keys, k, 1)

KeysOf(m) == [i \in 1..Len(m) |-> m[i].k]

InsertAt(s, i, e) == SubSeq(s, 1, i - 1) \o <<e>> \o SubSeq(s, i, Len(s))
RemoveAt(s, i) == SubSeq(s, 1, i - 1) \o SubSeq(s, i + 1, Len(s))

\* BTreeMap::insert: an entry whose key compares Equal keeps its key and
\* gets the new value
MapInsert(m, k, v) ==
    LET r == Search(KeysOf(m), k)
    IN IF r.found THEN [m EXCEPT ![r.idx].v = v]
       ELSE InsertAt(m, r.idx, [k |-> k, v |-> v])

MapGet(m, k) ==
    LET r == Search(KeysOf(m), k)
    IN IF r.found THEN Some(m[r.idx].v) ELSE None

MapRemove(m, k) ==
    LET r == Search(KeysOf(m), k)
    IN IF r.found THEN RemoveAt(m, r.idx) ELSE m

SetContains(s, k) == Search(s, k).found

SetRemove(s, k) ==
    LET r == Search(s, k)
    IN IF r.found THEN RemoveAt(s, r.idx) ELSE s

\* BTreeSet::from_iter: sort, then drop adjacent structural duplicates
RECURSIVE Dedup(_)
Dedup(s) ==
    IF Len(s) <= 1 THEN s
    ELSE IF s[1] = s[2] THEN Dedup(Tail(s))
         ELSE <<s[1]>> \o Dedup(Tail(s))

SetCollect(keys) == Dedup(sortStable(keys))

\* ------------------------------------------------------------ configuration
\* labels passed to the label operations
Labels == {"audited"}
\* ProcTable.propagate_labels, as set by set_propagate_labels
propagate_labels == {"audited"}
\* ProcTable.label_exe: Some(matcher); matcher.matches(exe)
label_exe_matches(exe) == IF exe = "/bin/sh" THEN {"audited", "shell"} ELSE {}

\* ---------------------------------------------------------------- /proc
\* parse_proc_pid(pid) for a process started at st: comm is the pid's own
\* name, exe may be unreadable (None), pid 2 runs in a container
ProcPidInfo(pid, st) ==
    [pid |-> pid,
     starttime |-> st,
     comm |-> Some("comm" \o ToString(pid)),
     exe |-> IF pid = 1 THEN None ELSE Some("/bin/sh"),
     container_id |-> IF pid = 2 THEN Some("c0ffee") ELSE None]

\* inputs of add_process: (comm, exe)
ExecInputs == {<<Some("cat"), Some("/bin/cat")>>}

\* ------------------------------------------------------------------ state
VARIABLES
    procs,      \* ProcTable.procs: entries [k, v] in storage order
    by_pid,     \* ProcTable.by_pid: pid -> Vec<ProcKey>, domain = pids present
    pc,         \* "new" (default table), "idle", or "hung" (a call never returns)
    hist,       \* history: pid -> keys pushed to by_pid[pid], in push order
    used,       \* history: EventIDs already passed to add_process
    nlabels,    \* history: number of label operations so far
    ord         \* the last comparison of ProcKeys made on its own, if any

\* state of the parts checked on their own (types.rs)
VARIABLES
    rec,        \* a Record: [elems, raw]
    other,      \* a second Record, to be merged into rec
    rec_log,    \* history: the (Key, Value) pairs rec was built from
    other_log,  \* history: the (Key, Value) pairs other was built from
    kq,         \* the last comparison of two Keys, if any
    pp          \* the last /proc text parsed and what came of it, if any

table == <<procs, by_pid, pc, hist, used, nlabels>>
records == <<rec, other, rec_log, other_log>>
aux == <<records, kq, pp>>
vars == <<procs, by_pid, pc, hist, used, nlabels, ord, aux>>

\* no comparison made yet: ProcKey::default() against itself
NoOrd == [a |-> Time(0), b |-> Time(0), c |-> Time(0),
          ab |-> "Equal", ba |-> "Equal", bc |-> "Equal", ac |-> "Equal"]

\* no Keys compared yet: Key::default() against itself
NoKq == [a |-> [k |-> "Literal", l |-> <<"n", "o", "_", "k", "e", "y">>],
         b |-> [k |-> "Literal", l |-> <<"n", "o", "_", "k", "e", "y">>],
         eq |-> TRUE]

\* nothing parsed yet
NoParse == [fn |-> "none"]

\* Record::default()
Record_default == [elems |-> <<>>, raw |-> <<>>]

\* Process; for_pid is a history field: the pid the entry was built for
Process(k, ppid, parent_key, labels, comm, exe, container_info, pid) ==
    [key |-> k, ppid |-> ppid, parent_key |-> parent_key, labels |-> labels,
     comm |-> comm, exe |-> exe, container_info |-> container_info,
     for_pid |-> pid]

ContainerInfo(id) == [id |-> id]

Ready == pc \in {"new", "idle"}

\* ProcTable::default()
Init ==
    /\ procs = <<>>
    /\ by_pid = <<>>
    /\ pc = "new"
    /\ hist = <<>>
    /\ used = {}
    /\ nlabels = 0
    /\ ord = NoOrd
    /\ rec = Record_default
    /\ other = Record_default
    /\ rec_log = <<>>
    /\ other_log = <<>>
    /\ kq = NoKq
    /\ pp = NoParse

\* by_pid.insert(pid, v)
PidInsert(m, pid, v) == [p \in (DOMAIN m) \cup {pid} |-> IF p = pid THEN v ELSE m[p]]

\* keys.first() in place of keys.last()
FirstKey(m, pid) ==
    IF pid \in DOMAIN m /\ m[pid] # <<>> THEN Some(m[pid][1]) ELSE None

\* by_pid.get(&pid).and_then(|keys| keys.last())
LastKey(m, pid) ==
    IF pid \in DOMAIN m /\ m[pid] # <<>> THEN Some(m[pid][Len(m[pid])]) ELSE None

\* -------------------------------------------------------- init_from_proc
\* the for loop over get_pids(): order is the (arbitrary) order of the scan
RECURSIVE InitLoop(_, _, _)
InitLoop(tbl, order, st) ==
    IF order = <<>> THEN tbl
    ELSE LET pid == Head(order)
             pi == ProcPidInfo(pid, st[pid])
             k == Time(pi.starttime)
             ci == IF pi.container_id = None THEN None
                   ELSE Some(ContainerInfo(pi.container_id[1]))
             p == Process(k, None, None, {}, pi.comm, pi.exe, ci, pid)
         IN InitLoop([procs |-> MapInsert(tbl.procs, k, p),
                      by_pid |-> PidInsert(tbl.by_pid, pid, <<k>>)],
                     Tail(order), st)

\* "initialize labels": proc.labels.extend(label_exe.matches(exe))
InitLabels(m) ==
    [i \in 1..Len(m) |->
        IF m[i].v.exe # None
        THEN [m[i] EXCEPT !.v.labels = @ \cup label_exe_matches(m[i].v.exe[1])]
        ELSE m[i]]

Orders(S) == {o \in [1..Cardinality(S) -> S] : \A i, j \in DOMAIN o : i # j => o[i] # o[j]}

\* called on the default table, as from_proc does
init_from_proc(order, st) ==
    /\ pc = "new"
    /\ LET tbl == InitLoop([procs |-> procs, by_pid |-> by_pid], order, st)
       IN /\ procs' = InitLabels(tbl.procs)
          /\ by_pid' = tbl.by_pid
          /\ hist' = tbl.by_pid
    /\ pc' = "idle"
    /\ UNCHANGED <<used, nlabels, ord, aux>>

\* ----------------------------------------------------------- add_process
add_process(pid, ppid, id, comm, exe) ==
    /\ Ready
    /\ id \notin used
    /\ Cardinality(used) < MaxAdds
    /\ LET k == Event(id[1], id[2])
           parent_key == LastKey(by_pid, ppid)
           p == Process(k, Some(ppid), parent_key, {}, comm, exe, None, pid)
       IN /\ procs' = MapInsert(procs, k, p)
          /\ by_pid' = IF pid \in DOMAIN by_pid
                       THEN [by_pid EXCEPT ![pid] = sort(Append(@, k))]
                       ELSE PidInsert(by_pid, pid, <<k>>)
          /\ hist' = IF pid \in DOMAIN hist
                     THEN [hist EXCEPT ![pid] = Append(@, k)]
                     ELSE PidInsert(hist, pid, <<k>>)
    /\ used' = used \cup {id}
    /\ pc' = "idle"
    /\ UNCHANGED <<nlabels, ord, aux>>

\* ------------------------------------------------------------------ labels
\* labels.remove left out
LabelsKeep(m, k, label) == m

\* get_mut(key), then labels.insert / labels.remove on the entry found
LabelsInsert(m, k, label) ==
    LET r == Search(KeysOf(m), k)
    IN IF r.found THEN [m EXCEPT ![r.idx].v.labels = @ \cup {label}] ELSE m

LabelsRemove(m, k, label) ==
    LET r == Search(KeysOf(m), k)
    IN IF r.found THEN [m EXCEPT ![r.idx].v.labels = @ \ {label}] ELSE m

\* what the four label operations share
LabelFrame ==
    /\ nlabels < MaxLabelOps
    /\ nlabels' = nlabels + 1
    /\ pc' = "idle"
    /\ UNCHANGED <<by_pid, hist, used, ord, aux>>

add_label(k, label) ==
    /\ Ready
    /\ procs' = LabelsInsert(procs, k, label)
    /\ LabelFrame

remove_label(k, label) ==
    /\ Ready
    /\ procs' = LabelsRemove(procs, k, label)
    /\ LabelFrame

add_label_pid(pid, label) ==
    /\ Ready
    /\ LET k == LastKey(by_pid, pid)
       IN procs' = IF k = None THEN procs ELSE LabelsInsert(procs, k[1], label)
    /\ LabelFrame

remove_label_pid(pid, label) ==
    /\ Ready
    /\ LET k == LastKey(by_pid, pid)
       IN procs' = IF k = None THEN procs ELSE LabelsRemove(procs, k[1], label)
    /\ LabelFrame

\* ----------------------------------------------------------------- lookup
get_process(pid) ==
    LET k == LastKey(by_pid, pid)
    IN IF k = None THEN None ELSE MapGet(procs, k[1])

get(k) == MapGet(procs, k)

\* .iter().filter_map(|key| procs.get(key)): the processes found, in order
RECURSIVE FilterMapGet(_, _)
FilterMapGet(m, keys) ==
    IF keys = <<>> THEN <<>>
    ELSE LET g == MapGet(m, Head(keys))
         IN (IF g = None THEN <<>> ELSE <<g[1]>>) \o FilterMapGet(m, Tail(keys))

\* find with <= in place of <
RECURSIVE FindBeforeIncl(_, _)
FindBeforeIncl(ps, t) ==
    IF ps = <<>> THEN None
    ELSE IF time(Head(ps).key) <= t THEN Some(Head(ps))
         ELSE FindBeforeIncl(Tail(ps), t)

\* .find(|proc| proc.key.time() < time): the first such process
RECURSIVE FindBefore(_, _)
FindBefore(ps, t) ==
    IF ps = <<>> THEN None
    ELSE IF time(Head(ps).key) < t THEN Some(Head(ps))
         ELSE FindBefore(Tail(ps), t)

get_pid_before(pid, t) ==
    IF pid \notin DOMAIN by_pid THEN None
    ELSE FindBefore(FilterMapGet(procs, by_pid[pid]), t)

\* ----------------------------------------------------------------- expire
\* The inner loop for one seed, from cursor k.  proc_prune does not change
\* while the cursor moves on, so a cursor seen before means the loop never
\* ends (hung).
RECURSIVE Walk(_, _, _, _)
Walk(m, pr, k, seen) ==
    IF SetContains(pr, k)
    THEN [prune |-> SetRemove(pr, k), hung |-> FALSE]
    ELSE LET g == MapGet(m, k)
             parent_key == IF g = None THEN None ELSE g[1].parent_key
         IN IF parent_key = None THEN [prune |-> pr, hung |-> FALSE]
            ELSE IF parent_key[1] \in seen \cup {k} THEN [prune |-> pr, hung |-> TRUE]
            ELSE Walk(m, pr, parent_key[1], seen \cup {k})

\* for seed_pid in live_processes
RECURSIVE SeedLoop(_, _, _, _)
SeedLoop(m, bp, pr, live) ==
    IF live = <<>> THEN [prune |-> pr, hung |-> FALSE]
    ELSE LET k == LastKey(bp, Head(live))
         IN IF k = None THEN SeedLoop(m, bp, pr, Tail(live))
            ELSE LET w == Walk(m, pr, k[1], {})
                 IN IF w.hung THEN w ELSE SeedLoop(m, bp, w.prune, Tail(live))

\* for key in proc_prune.iter() { procs.remove(key) }
RECURSIVE RemoveAll(_, _)
RemoveAll(m, pr) ==
    IF pr = <<>> THEN m ELSE RemoveAll(MapRemove(m, Head(pr)), Tail(pr))

\* procs.iter().filter(|proc| !proc_prune.contains(proc)).collect()
RECURSIVE FilterKept(_, _)
FilterKept(keys, pr) ==
    IF keys = <<>> THEN <<>>
    ELSE (IF SetContains(pr, Head(keys)) THEN <<>> ELSE <<Head(keys)>>)
         \o FilterKept(Tail(keys), pr)

\* "rewrite by_pid hints" with the pids of pid_prune left in by_pid
RewriteByPid_keep_empty(m, pr) == [p \in DOMAIN m |-> FilterKept(m[p], pr)]

\* "rewrite by_pid hints", then drop the pids of pid_prune
RewriteByPid(m, pr) ==
    LET f == [p \in DOMAIN m |-> FilterKept(m[p], pr)]
        keep == {p \in DOMAIN m : f[p] # <<>>}
    IN [p \in keep |-> f[p]]

\* proc_prune after the seed loop, for get_pids() = Ok(live)
Unmarked(live) == SeedLoop(procs, by_pid, SetCollect(KeysOf(procs)), live)

\* a failed get_pids() taken for Ok(vec![])
expire_err_as_empty ==
    /\ Ready
    /\ procs' = RemoveAll(procs, SetCollect(KeysOf(procs)))
    /\ by_pid' = <<>>
    /\ hist' = <<>>
    /\ pc' = "idle"
    /\ UNCHANGED <<used, nlabels, ord, aux>>

\* get_pids() fails: return
expire_err ==
    /\ Ready
    /\ pc' = "idle"
    /\ UNCHANGED <<procs, by_pid, hist, used, nlabels, ord, aux>>

\* expire() for get_pids() = Ok(live), live in the (arbitrary) order of the
\* scan: whether the seed loop hangs, and the indices when it returns
expire_result(live) ==
    LET u == Unmarked(live)
    IN [hung |-> u.hung,
        procs |-> RemoveAll(procs, u.prune),
        by_pid |-> RewriteByPid(by_pid, u.prune),
        hist |-> RewriteByPid(hist, u.prune)]

expire(live) ==
    /\ Ready
    /\ LET r == expire_result(live)
       IN IF r.hung
          THEN /\ pc' = "hung"
               /\ UNCHANGED <<procs, by_pid, hist>>
          ELSE /\ procs' = r.procs
               /\ by_pid' = r.by_pid
               /\ hist' = r.hist
               /\ pc' = "idle"
    /\ UNCHANGED <<used, nlabels, ord, aux>>

\* ------------------------------------------------------------------- Next
Next ==
    \/ \E S \in SUBSET InitPids : \E order \in Orders(S) : \E st \in [S -> Times] :
          init_from_proc(order, st)
    \/ \E pid \in Pids : \E ppid \in Pids \ {pid} : \E id \in EventIDs, ce \in ExecInputs :
          add_process(pid, ppid, id, ce[1], ce[2])
    \/ \E k \in ProcKeys, label \in Labels : add_label(k, label)
    \/ \E k \in ProcKeys, label \in Labels : remove_label(k, label)
    \/ \E pid \in Pids, label \in Labels : add_label_pid(pid, label)
    \/ \E pid \in Pids, label \in Labels : remove_label_pid(pid, label)
    \/ expire_err
    \/ \E S \in SUBSET Pids : \E live \in Orders(S) : expire(live)

Spec == Init /\ [][Next]_vars

\* ------------------------------------------------- ProcKey::cmp on its own
\* a.cmp(&b), b.cmp(&a), b.cmp(&c), a.cmp(&c) for keys of both variants
compare(a, b, c) ==
    /\ ord' = [a |-> a, b |-> b, c |-> c,
               ab |-> cmp(a, b), ba |-> cmp(b, a), bc |-> cmp(b, c), ac |-> cmp(a, c)]
    /\ UNCHANGED <<table, aux>>

NextOrd == \E a \in ProcKeys, b \in ProcKeys, c \in ProcKeys : compare(a, b, c)

SpecOrd == Init /\ [][NextOrd]_vars

\* ========================================================= Record (types.rs)
\* A byte slice &[u8]: its bytes b and, when its pointer range lies inside
\* the record's raw buffer, its offset there (at = Some(offset)).  A slice
\* handed to push borrows from outside the record, so only an empty slice
\* can have its (dangling or one-past-the-end) pointer fall inside raw.
Slice(b, at) == [b |-> b, at |-> at]

\* Range<usize>, and Offset::offset
Rng(start, end) == [start |-> start, end |-> end]
offset(r, off) == Rng(r.start + off, r.end + off)

\* &raw[r]
Index(raw, r) == Slice(SubSeq(raw, r.start + 1, r.end), Some(r.start))

slice_contains(mainslice, subslice) == subslice.at

\* Value / RecordValue, SimpleKey / SimpleRecordKey, SimpleValue /
\* SimpleRecordValue: the same variants, x a Slice in the borrowed form and
\* a Rng in the stored form
Empty == [t |-> "Empty"]
Str(x, q) == [t |-> "Str", x |-> x, q |-> q]
Segments(v) == [t |-> "Segments", v |-> v]
List(v) == [t |-> "List", v |-> v]
StringifiedList(v) == [t |-> "StringifiedList", v |-> v]
Map(kv) == [t |-> "Map", kv |-> kv]
Number(n) == [t |-> "Number", n |-> n]
Skipped(n) == [t |-> "Skipped", n |-> n]
Literal(l) == [t |-> "Literal", l |-> l]
SimpleStr(x) == [t |-> "Str", x |-> x]
SimpleNumber(n) == [t |-> "Number", n |-> n]
SimpleLiteral(l) == [t |-> "Literal", l |-> l]

\* the bytes of s put in front of raw instead of behind it
StrAtFront(s, raw) == [r |-> Rng(0, Len(s.b)), raw |-> s.b \o raw]

\* the Str branch of every to_rv: the range of slice s in raw, raw extended
\* by the bytes of s when s is not part of it
StrToRange(s, raw) ==
    LET found == slice_contains(raw, s)
    IN IF found # None
       THEN [r |-> Rng(found[1], found[1] + Len(s.b)), raw |-> raw]
       ELSE [r |-> Rng(Len(raw), Len(raw) + Len(s.b)), raw |-> raw \o s.b]

\* v.iter().map(|r| ...).collect() of the Segments branch
RECURSIVE SegmentsToRanges(_, _)
SegmentsToRanges(v, raw) ==
    IF v = <<>> THEN [rv |-> <<>>, raw |-> raw]
    ELSE LET h == StrToRange(Head(v), raw)
             t == SegmentsToRanges(Tail(v), h.raw)
         IN [rv |-> <<h.r>> \o t.rv, raw |-> t.raw]

SimpleKey_to_rv(k, raw) ==
    IF k.t = "Str"
    THEN LET h == StrToRange(k.x, raw) IN [rv |-> SimpleStr(h.r), raw |-> h.raw]
    ELSE [rv |-> k, raw |-> raw]

SimpleValue_to_rv(v, raw) ==
    IF v.t = "Str"
    THEN LET h == StrToRange(v.x, raw) IN [rv |-> SimpleStr(h.r), raw |-> h.raw]
    ELSE [rv |-> v, raw |-> raw]

\* the Map branch: (k.to_rv(&mut raw), v.to_rv(&mut raw)) for each pair
RECURSIVE MapToRv(_, _)
MapToRv(kv, raw) ==
    IF kv = <<>> THEN [rv |-> <<>>, raw |-> raw]
    ELSE LET k == SimpleKey_to_rv(Head(kv)[1], raw)
             v == SimpleValue_to_rv(Head(kv)[2], k.raw)
             t == MapToRv(Tail(kv), v.raw)
         IN [rv |-> <<<<k.rv, v.rv>>>> \o t.rv, raw |-> t.raw]

\* Value::to_rv: the stored form and the raw buffer after the call
RECURSIVE to_rv(_, _)
RECURSIVE ListToRv(_, _)
ListToRv(vs, raw) ==
    IF vs = <<>> THEN [rv |-> <<>>, raw |-> raw]
    ELSE LET h == to_rv(Head(vs), raw)
             t == ListToRv(Tail(vs), h.raw)
         IN [rv |-> <<h.rv>> \o t.rv, raw |-> t.raw]

to_rv(v, raw) ==
    CASE v.t = "Str" ->
            LET h == StrToRange(v.x, raw) IN [rv |-> Str(h.r, v.q), raw |-> h.raw]
      [] v.t = "Segments" ->
            LET h == SegmentsToRanges(v.v, raw) IN [rv |-> Segments(h.rv), raw |-> h.raw]
      [] v.t = "List" ->
            LET h == ListToRv(v.v, raw) IN [rv |-> List(h.rv), raw |-> h.raw]
      [] v.t = "StringifiedList" ->
            LET h == ListToRv(v.v, raw) IN [rv |-> StringifiedList(h.rv), raw |-> h.raw]
      [] v.t = "Map" ->
            LET h == MapToRv(v.kv, raw) IN [rv |-> Map(h.rv), raw |-> h.raw]
      [] OTHER -> [rv |-> v, raw |-> raw]

SimpleKey_from_rv(r, raw) == IF r.t = "Str" THEN SimpleStr(Index(raw, r.x)) ELSE r
SimpleValue_from_rv(r, raw) == IF r.t = "Str" THEN SimpleStr(Index(raw, r.x)) ELSE r

\* Value::from_rv
RECURSIVE from_rv(_, _)
from_rv(r, raw) ==
    CASE r.t = "Str" -> Str(Index(raw, r.x), r.q)
      [] r.t = "Segments" -> Segments([i \in DOMAIN r.v |-> Index(raw, r.v[i])])
      [] r.t = "List" -> List([i \in DOMAIN r.v |-> from_rv(r.v[i], raw)])
      [] r.t = "StringifiedList" ->
            StringifiedList([i \in DOMAIN r.v |-> from_rv(r.v[i], raw)])
      [] r.t = "Map" ->
            Map([i \in DOMAIN r.kv |->
                    <<SimpleKey_from_rv(r.kv[i][1], raw),
                      SimpleValue_from_rv(r.kv[i][2], raw)>>])
      [] OTHER -> r

\* Key (the variants; Display is further down)
Name(r) == [k |-> "Name", r |-> r]
NameUID(r) == [k |-> "NameUID", r |-> r]
NameGID(r) == [k |-> "NameGID", r |-> r]
Common(c) == [k |-> "Common", c |-> c]
NameTranslated(r) == [k |-> "NameTranslated", r |-> r]
Arg(x, y) == [k |-> "Arg", x |-> x, y |-> y]
ArgLen(x) == [k |-> "ArgLen", x |-> x]
KeyLiteral(l) == [k |-> "Literal", l |-> l]

\* Record::push
Record_push(self, k, v) ==
    LET h == to_rv(v, self.raw)
    IN [elems |-> Append(self.elems, <<k, h.rv>>), raw |-> h.raw]

\* Record::put: the record after the call, and the range returned
Record_put(self, s) == [self EXCEPT !.raw = @ \o s]
Record_put_range(self, s) == Rng(Len(self.raw), Len(self.raw) + Len(s))

\* the closure of Record::extend applied to one value of other
Panic == [t |-> "panic"]
ExtendValue(v, rawlen) ==
    CASE v.t = "Str" -> Str(offset(v.x, rawlen), v.q)
      [] v.t \in {"Empty", "Number", "Literal"} -> v
      [] v.t = "Map" ->
            Map([i \in DOMAIN v.kv |->
                    <<v.kv[i][1],
                      IF v.kv[i][2].t = "Str"
                      THEN SimpleStr(offset(v.kv[i][2].x, rawlen))
                      ELSE v.kv[i][2]>>])
      [] OTHER -> Panic

\* Record::extend with rawlen read after raw was extended
Record_extend_late_rawlen(self, oth) ==
    LET rawlen == Len(self.raw \o oth.raw)
        mapped == [i \in DOMAIN oth.elems |->
                      <<oth.elems[i][1], ExtendValue(oth.elems[i][2], rawlen)>>]
    IN [elems |-> self.elems \o mapped, raw |-> self.raw \o oth.raw]

\* Record::extend: the merged record; when other holds a Segments, Skipped,
\* List or StringifiedList value the call panics after raw was extended
Record_extend(self, oth) ==
    LET rawlen == Len(self.raw)
        mapped == [i \in DOMAIN oth.elems |->
                      <<oth.elems[i][1], ExtendValue(oth.elems[i][2], rawlen)>>]
    IN IF \E i \in DOMAIN mapped : mapped[i][2].t = "panic"
       THEN [elems |-> self.elems, raw |-> self.raw \o oth.raw, panicked |-> TRUE]
       ELSE [elems |-> self.elems \o mapped, raw |-> self.raw \o oth.raw]

\* for (k, v) in &record: the items RecordIterator::next yields, in order
Iter(self) ==
    [i \in DOMAIN self.elems |->
        <<self.elems[i][1], from_rv(self.elems[i][2], self.raw)>>]

\* ---------------------------------------------------------- Record inputs
MaxElems == 3
MaxRaw == 2

ByteStrs == {<<"a">>, <<"b">>, <<"a", "b">>}
\* slices borrowed from outside the record
Borrowed == {Slice(b, None) : b \in ByteStrs}
\* an empty slice, whose pointer may happen to lie inside raw
EmptySlices == {Slice(<<>>, None)} \cup {Slice(<<>>, Some(o)) : o \in 0..MaxRaw}
\* a slice inside raw lies within its length
Points(v, raw) == (v.t = "Str" /\ v.x.at # None) => v.x.at[1] <= Len(raw)

RecordKeys == {Name(<<"k">>), Common("Pid")}

\* values a record to be merged may hold
MergeValues ==
    {Empty, Number(7), Literal("lit")}
    \cup {Str(x, "None") : x \in Borrowed \cup EmptySlices}
    \cup {Str(Slice(<<"a", "b">>, None), "Double")}
    \cup {Map(<<<<SimpleStr(Slice(<<"b">>, None)), SimpleStr(Slice(<<"a">>, None))>>>>),
          Map(<<<<SimpleLiteral("l"), SimpleNumber(1)>>,
                <<SimpleStr(Slice(<<"a">>, None)), SimpleStr(Slice(<<"a", "b">>, None))>>>>)}

\* values of EXECVE records, which are never merged
ExecveValues ==
    {Segments(<<Slice(<<"a">>, None), Slice(<<"b">>, None)>>),
     List(<<Str(Slice(<<"b">>, None), "None"), Number(7)>>)}

PushValues == MergeValues \cup ExecveValues

\* the pair as the caller holds it: every slice by its bytes alone
RECURSIVE Logical(_)
Logical(v) ==
    CASE v.t = "Str" -> Str(v.x.b, v.q)
      [] v.t = "Segments" -> Segments([i \in DOMAIN v.v |-> v.v[i].b])
      [] v.t = "List" -> List([i \in DOMAIN v.v |-> Logical(v.v[i])])
      [] v.t = "StringifiedList" -> StringifiedList([i \in DOMAIN v.v |-> Logical(v.v[i])])
      [] v.t = "Map" ->
            Map([i \in DOMAIN v.kv |->
                    <<IF v.kv[i][1].t = "Str" THEN SimpleStr(v.kv[i][1].x.b) ELSE v.kv[i][1],
                      IF v.kv[i][2].t = "Str" THEN SimpleStr(v.kv[i][2].x.b) ELSE v.kv[i][2]>>])
      [] OTHER -> v

LogicalPairs(items) == [i \in DOMAIN items |-> <<items[i][1], Logical(items[i][2])>>]

\* --------------------------------------------------------- Record actions
RoomForPair == Len(rec.elems) + Len(other.elems) < MaxElems

push(k, v) ==
    /\ RoomForPair
    /\ Points(v, rec.raw)
    /\ rec' = Record_push(rec, k, v)
    /\ rec_log' = Append(rec_log, <<k, Logical(v)>>)
    /\ UNCHANGED <<other, other_log, table, ord, kq, pp>>

other_push(k, v) ==
    /\ RoomForPair
    /\ Points(v, other.raw)
    /\ other' = Record_push(other, k, v)
    /\ other_log' = Append(other_log, <<k, Logical(v)>>)
    /\ UNCHANGED <<rec, rec_log, table, ord, kq, pp>>

put(s) ==
    /\ Len(rec.raw) + Len(s) <= MaxRaw
    /\ rec' = Record_put(rec, s)
    /\ UNCHANGED <<rec_log, other, other_log, table, ord, kq, pp>>

\* rec.extend(other); other is moved into the call and a new one begun
extend ==
    /\ rec' = Record_extend(rec, other)
    /\ rec_log' = rec_log \o other_log
    /\ other' = Record_default
    /\ other_log' = <<>>
    /\ UNCHANGED <<table, ord, kq, pp>>

NextRec ==
    \/ \E k \in RecordKeys, v \in PushValues : push(k, v)
    \/ \E k \in RecordKeys, v \in MergeValues : other_push(k, v)
    \/ \E s \in ByteStrs : put(s)
    \/ extend

SpecRec == Init /\ [][NextRec]_vars

\* ========================================================== Key (types.rs)
\* Text is a sequence of one-character strings.
\* COMMON: (name, value)
COMMON ==
    <<<<<<"a", "r", "c", "h">>, "Arch">>,
     <<<<"s", "y", "s", "c", "a", "l", "l">>, "Syscall">>,
     <<<<"s", "u", "c", "c", "e", "s", "s">>, "Success">>,
     <<<<"e", "x", "i", "t">>, "Exit">>,
     <<<<"i", "t", "e", "m", "s">>, "Items">>,
     <<<<"p", "p", "i", "d">>, "PPid">>,
     <<<<"p", "i", "d">>, "Pid">>,
     <<<<"t", "t", "y">>, "Tty">>,
     <<<<"s", "e", "s">>, "Ses">>,
     <<<<"c", "o", "m", "m">>, "Comm">>,
     <<<<"e", "x", "e">>, "Exe">>,
     <<<<"s", "u", "b", "j">>, "Subj">>,
     <<<<"k", "e", "y">>, "Key">>>>

\* COMMON_NAMES[&value]
COMMON_NAMES(c) == CHOOSE i \in DOMAIN COMMON : COMMON[i][2] = c

Digits == <<"0", "1", "2", "3", "4", "5", "6", "7", "8", "9">>
\* "{}" of an unsigned integer
RECURSIVE FmtInt(_)
FmtInt(n) == IF n < 10 THEN <<Digits[n + 1]>> ELSE FmtInt(n \div 10) \o <<Digits[(n % 10) + 1]>>

LowerCase == <<"a", "b", "c", "d", "e", "f", "g", "h", "i", "j", "k", "l", "m", "n", "o", "p", "q", "r", "s", "t", "u", "v", "w", "x", "y", "z">>
UpperCase == <<"A", "B", "C", "D", "E", "F", "G", "H", "I", "J", "K", "L", "M", "N", "O", "P", "Q", "R", "S", "T", "U", "V", "W", "X", "Y", "Z">>
\* str::to_ascii_uppercase
to_ascii_uppercase(str) ==
    [i \in DOMAIN str |->
        IF \E j \in DOMAIN LowerCase : LowerCase[j] = str[i]
        THEN UpperCase[CHOOSE j \in DOMAIN LowerCase : LowerCase[j] = str[i]]
        ELSE str[i]]

\* impl Display for Key (to_string)
Display(key) ==
    CASE key.k = "Arg" /\ key.y # None ->
            <<"a">> \o FmtInt(key.x) \o <<"[">> \o FmtInt(key.y[1]) \o <<"]">>
      [] key.k = "Arg" /\ key.y = None -> <<"a">> \o FmtInt(key.x)
      [] key.k = "ArgLen" -> <<"a">> \o FmtInt(key.x) \o <<"_", "l", "e", "n">>
      [] key.k \in {"Name", "NameUID", "NameGID"} -> key.r
      [] key.k = "Common" -> COMMON[COMMON_NAMES(key.c)][1]
      [] key.k = "NameTranslated" -> to_ascii_uppercase(key.r)
      [] key.k = "Literal" -> key.l

\* #[derive(PartialEq, Eq)] on Key: the same variant with equal fields
Key_eq(a, b) ==
    /\ a.k = b.k
    /\ CASE a.k \in {"Name", "NameUID", "NameGID", "NameTranslated"} -> a.r = b.r
         [] a.k = "Common" -> a.c = b.c
         [] a.k = "Arg" -> a.x = b.x /\ a.y = b.y
         [] a.k = "ArgLen" -> a.x = b.x
         [] a.k = "Literal" -> a.l = b.l

\* impl PartialEq<[u8]> for Key
Key_eq_bytes(key, bytes) ==
    IF key.k \in {"Name", "NameUID", "NameGID"} THEN key.r = bytes
    ELSE Display(key) = bytes

\* Keys of every variant, several with the same text
Keys ==
    {Name(<<"p", "i", "d">>), Name(<<"u", "i", "d">>), Name(<<"U", "I", "D">>), Name(<<"a", "0">>),
     NameUID(<<"u", "i", "d">>), NameGID(<<"g", "i", "d">>), Common("Pid"), Common("Exe"),
     NameTranslated(<<"u", "i", "d">>), NameTranslated(<<"p", "i", "d">>), Arg(0, None), Arg(0, Some(1)),
     Arg(12, None), ArgLen(0), KeyLiteral(<<"p", "i", "d">>), KeyLiteral(<<"n", "o", "_", "k", "e", "y">>)}

\* a == b for two Keys
key_eq(a, b) ==
    /\ kq' = [a |-> a, b |-> b, eq |-> Key_eq(a, b)]
    /\ UNCHANGED <<table, ord, records, pp>>

NextKey == \E a \in Keys, b \in Keys : key_eq(a, b)

SpecKey == Init /\ [][NextKey]_vars

\* ============================================================== procfs.rs
\* Results: Ok(v), Err(msg), or a panic (the call aborts)
Ok(v) == [res |-> "Ok", v |-> v]
Err(msg) == [res |-> "Err", msg |-> msg]
Panicked(what) == [res |-> "Panic", what |-> what]

\* kernel clock ticks per second
CLK_TCK == 100
\* clock_gettime(CLOCK_BOOTTIME) and clock_gettime(CLOCK_REALTIME), in ms
BoottimeMs == 500
RealtimeMs == 9000

IsDigit(c) == \E i \in DOMAIN Digits : Digits[i] = c
DigitVal(c) == (CHOOSE i \in DOMAIN Digits : Digits[i] = c) - 1

RECURSIVE StripZeros(_)
StripZeros(d) == IF Len(d) > 1 /\ d[1] = "0" THEN StripZeros(Tail(d)) ELSE d

\* a <= b for digit strings of the same length
RECURSIVE DigitsLE(_, _)
DigitsLE(a, b) ==
    IF a = <<>> THEN TRUE
    ELSE IF DigitVal(a[1]) # DigitVal(b[1]) THEN DigitVal(a[1]) < DigitVal(b[1])
         ELSE DigitsLE(Tail(a), Tail(b))

U32_MAX == <<"4", "2", "9", "4", "9", "6", "7", "2", "9", "5">>
U64_MAX == <<"1", "8", "4", "4", "6", "7", "4", "4", "0", "7", "3", "7", "0", "9", "5", "5", "1", "6", "1", "5">>

\* u32::from_str / u64::from_str: an optional '+', then one or more digits,
\* the number no greater than max; Some(the number in canonical decimal) or
\* None for a ParseIntError
from_str(str, max) ==
    LET body == IF str # <<>> /\ str[1] = "+" THEN Tail(str) ELSE str
        n == StripZeros(body)
    IN IF body = <<>> \/ (\E i \in DOMAIN body : ~IsDigit(body[i])) THEN None
       ELSE IF Len(n) > Len(max) \/ (Len(n) = Len(max) /\ ~DigitsLE(n, max)) THEN None
       ELSE Some(n)

\* the number a canonical decimal stands for
RECURSIVE IntOf(_)
IntOf(d) == IF d = <<>> THEN 0 ELSE 10 * IntOf(SubSeq(d, 1, Len(d) - 1)) + DigitVal(d[Len(d)])

\* buf.split(|c| *c == sep).collect(): the fields between separators
RECURSIVE Split(_, _)
Split(buf, sep) ==
    IF \A i \in DOMAIN buf : buf[i] # sep THEN <<buf>>
    ELSE LET i == CHOOSE i \in DOMAIN buf :
                      buf[i] = sep /\ \A j \in 1..(i - 1) : buf[j] # sep
         IN <<SubSeq(buf, 1, i - 1)>> \o Split(SubSeq(buf, i + 1, Len(buf)), sep)

\* .find(|c| c == ch) / .rfind(|c| c == ch): 0-based position, if any
Find(buf, ch) ==
    IF \A i \in DOMAIN buf : buf[i] # ch THEN None
    ELSE Some((CHOOSE i \in DOMAIN buf : buf[i] = ch /\ \A j \in 1..(i - 1) : buf[j] # ch) - 1)
RFind(buf, ch) ==
    IF \A i \in DOMAIN buf : buf[i] # ch THEN None
    ELSE Some((CHOOSE i \in DOMAIN buf :
                  buf[i] = ch /\ \A j \in (i + 1)..Len(buf) : buf[j] # ch) - 1)

\* the process start in ms since the epoch, from the start in clock ticks
StartMs(ticks) ==
    LET proc_boottime == (ticks \div CLK_TCK) * 1000 + (ticks % CLK_TCK) * (1000 \div CLK_TCK)
        proc_age == BoottimeMs - proc_boottime
    IN RealtimeMs - proc_age

\* length of a sha256 sum in hex
SHA_LEN == 64

\* u8::is_ascii_hexdigit
HexChars ==
    {"0", "1", "2", "3", "4", "5", "6", "7", "8", "9",
     "a", "b", "c", "d", "e", "f", "A", "B", "C", "D", "E", "F"}
is_ascii_hexdigit(c) == c \in HexChars

\* buf[from..to] with 0-based, half-open bounds
Sub(buf, from, to) == SubSeq(buf, from + 1, to)

AllHex(buf) == \A i \in DOMAIN buf : is_ascii_hexdigit(buf[i])

\* extract_sha256 looking at the head of the fragment only
extract_sha256_head(buf) ==
    IF Len(buf) < SHA_LEN THEN None
    ELSE IF AllHex(Sub(buf, 0, SHA_LEN)) THEN Some(Sub(buf, 0, SHA_LEN))
    ELSE None

extract_sha256(buf) ==
    IF Len(buf) < SHA_LEN THEN None
    ELSE IF AllHex(Sub(buf, Len(buf) - SHA_LEN, Len(buf)))
         THEN Some(Sub(buf, Len(buf) - SHA_LEN, Len(buf)))
    ELSE IF AllHex(Sub(buf, 0, SHA_LEN)) THEN Some(Sub(buf, 0, SHA_LEN))
    ELSE None

DotScope == <<".", "s", "c", "o", "p", "e">>
ends_with(buf, suffix) ==
    Len(buf) >= Len(suffix) /\ Sub(buf, Len(buf) - Len(suffix), Len(buf)) = suffix

\* the inner loop of parse_cgroup_buf: the first hit among the fragments
RECURSIVE FragmentLoop(_)
FragmentLoop(fragments) ==
    IF fragments = <<>> THEN None
    ELSE LET fragment == IF ends_with(Head(fragments), DotScope)
                         THEN Sub(Head(fragments), 0, Len(Head(fragments)) - 6)
                         ELSE Head(fragments)
             hit == extract_sha256(fragment)
         IN IF hit = None THEN FragmentLoop(Tail(fragments)) ELSE hit

\* the outer loop: lines in order; a line without a third field is skipped
RECURSIVE LineLoop(_)
LineLoop(lines) ==
    IF lines = <<>> THEN None
    ELSE LET fields == Split(Head(lines), ":")
             dir == IF Len(fields) >= 3 THEN Some(fields[3]) ELSE None
         IN IF dir = None THEN LineLoop(Tail(lines))
            ELSE LET hit == FragmentLoop(Split(dir[1], "/"))
                 IN IF hit = None THEN LineLoop(Tail(lines)) ELSE hit

parse_cgroup_buf(buf) == Ok(LineLoop(Split(buf, "\n")))

\* parse_proc_pid_cgroup: cgroup is the result of reading /proc/<pid>/cgroup
parse_proc_pid_cgroup(cgroup) ==
    IF cgroup.res = "Err" THEN cgroup ELSE parse_cgroup_buf(cgroup.v)

\* parse_proc_pid, given what reading /proc/<pid>/stat, comm, exe and cgroup
\* gives, whether the clocks can be read, and whether the build checks
\* integer overflow (debug) or wraps (release)
parse_proc_pid(stat, comm_file, exe_link, cgroup, clock_ok, overflow_checks) ==
    IF stat.res = "Err" THEN Err("read /proc/pid/stat")
    ELSE LET buf == stat.v
             pid_end == Find(buf, " ")
             comm_end == RFind(buf, ")")
         IN IF pid_end = None THEN Err("end of 'pid' field not found")
            ELSE IF comm_end = None THEN Err("end of 'cmd' field not found")
            ELSE IF comm_end[1] + 2 > Len(buf)
                 THEN Panicked("range start index out of range for slice")
            ELSE IF comm_file.res = "Ok" /\ comm_file.v = <<>> /\ overflow_checks
                 THEN Panicked("attempt to subtract with overflow")
            ELSE
              LET stat_pid == Sub(buf, 0, pid_end[1])
                  fields == Split(Sub(buf, comm_end[1] + 2, Len(buf)), " ")
                  \* s.len() - 1 wraps for an empty file and truncate does nothing
                  comm == IF comm_file.res = "Err" THEN None
                          ELSE IF comm_file.v = <<>> THEN Some(<<>>)
                          ELSE Some(Sub(comm_file.v, 0, Len(comm_file.v) - 1))
                  exe == IF exe_link.res = "Err" THEN None ELSE Some(exe_link.v)
                  pid == from_str(stat_pid, U32_MAX)
              IN IF pid = None THEN Err("ParseIntError")
                 ELSE IF Len(fields) < 2 THEN Panicked("index out of bounds")
                 ELSE IF from_str(fields[2], U32_MAX) = None THEN Err("ParseIntError")
                 ELSE IF Len(fields) < 20 THEN Panicked("index out of bounds")
                 ELSE IF from_str(fields[20], U64_MAX) = None THEN Err("ParseIntError")
                 ELSE IF ~clock_ok THEN Err("clock_gettime")
                 ELSE LET container_id == parse_proc_pid_cgroup(cgroup)
                      IN IF container_id.res = "Err" THEN container_id
                         ELSE Ok([pid |-> pid[1],
                                  ppid |-> from_str(fields[2], U32_MAX)[1],
                                  starttime |-> StartMs(IntOf(from_str(fields[20], U64_MAX)[1])),
                                  comm |-> comm,
                                  exe |-> exe,
                                  container_id |-> container_id.v])

\* ------------------------------------------------------------ /proc contents
\* c repeated n times; the fields of a line joined by one space each
Rep(c, n) == [i \in 1..n |-> c]
RECURSIVE Join(_)
Join(fields) == IF fields = <<>> THEN <<>> ELSE <<" ">> \o Head(fields) \o Join(Tail(fields))

\* what follows the comm field in /proc/<pid>/stat: state, ppid, 17 fields
\* that are not looked at, starttime, and the rest
StatFields(ppid, starttime) ==
    Join(<<<<"S">>, ppid>> \o Rep(<<"0">>, 17) \o <<starttime, <<"0">>>>)

StatTails ==
    {<<>>, <<" ">>, <<" ", "S">>,
     Join(<<<<"S">>, <<"1">>>>),
     Join(<<<<"S">>, <<"1">>>> \o Rep(<<"0">>, 17)),
     StatFields(<<"1">>, <<"1", "2", "3">>),
     StatFields(<<"x">>, <<"1", "2", "3">>),
     StatFields(<<"1">>, <<"-", "5">>),
     StatFields(U32_MAX, <<"0", "7">>),
     StatFields(<<"4", "2", "9", "4", "9", "6", "7", "2", "9", "6">>, <<"7">>)}

StatHeads == {<<"7", " ", "(", "s", "h", ")">>, <<"x", " ", "(", "s", "h", ")">>, <<"7", "(", "s", "h", ")">>, <<"7", " ", "(", "a", " ", ")", "b", ")">>, <<"7", " ", "s", "h">>}

StatFiles == {Err("io")} \cup {Ok(h \o t) : h \in StatHeads, t \in StatTails}

\* a container id, and a cgroup file naming it
Sha == Rep("a", 63) \o <<"9">>
CgroupDocker == <<"0", ":", ":", "/", "s", "y", "s", "t", "e", "m", ".", "s", "l", "i", "c", "e", "/", "d", "o", "c", "k", "e", "r", "-">> \o Sha \o DotScope \o <<"\n">>

\* the other files, the clocks and the build
ProcEnvs ==
    {[comm |-> c, exe |-> Ok(<<"/", "b", "i", "n", "/", "s", "h">>), cgroup |-> Ok(CgroupDocker),
      clock_ok |-> TRUE, overflow_checks |-> b] :
        c \in {Ok(<<"s", "h", "\n">>), Ok(<<"\n">>), Ok(<<>>), Err("io")}, b \in BOOLEAN}
    \cup {[comm |-> Err("io"), exe |-> Err("io"), cgroup |-> Err("io"),
           clock_ok |-> TRUE, overflow_checks |-> FALSE],
          [comm |-> Ok(<<"s", "h", "\n">>), exe |-> Err("io"), cgroup |-> Ok(<<>>),
           clock_ok |-> FALSE, overflow_checks |-> TRUE]}

\* parse_proc_pid(pid) on these files
proc_pid(stat, env) ==
    /\ pp' = [fn |-> "parse_proc_pid", stat |-> stat, env |-> env,
              out |-> parse_proc_pid(stat, env.comm, env.exe, env.cgroup,
                                     env.clock_ok, env.overflow_checks)]
    /\ UNCHANGED <<table, ord, records, kq>>

NextStat == \E stat \in StatFiles, env \in ProcEnvs : proc_pid(stat, env)

SpecStat == Init /\ [][NextStat]_vars

\* ---------------------------------------------------- /proc/<pid>/cgroup
\* a second container id, in upper-case hex
Sha2 == Rep("B", 32) \o Rep("0", 32)

CgroupLines ==
    {<<>>, <<"x">>, <<"0", ":", "c", "p", "u">>, <<"0", ":", ":", "/">>,
     <<"0", ":", ":", "/", "s", "y", "s", "t", "e", "m", ".", "s", "l", "i", "c", "e", "/", "d", "o", "c", "k", "e", "r", "-">> \o Sha \o DotScope,
     <<"0", ":", ":", "/", "u", "s", "e", "r", ".", "s", "l", "i", "c", "e", "/", "l", "i", "b", "p", "o", "d", "-">> \o Sha2 \o DotScope \o <<"/", "c", "o", "n", "t", "a", "i", "n", "e", "r">>,
     <<"1", ":", "n", "a", "m", "e", ":", "/">> \o Sha \o <<"-", "t", "a", "i", "l">>,
     <<"1", ":", "n", "a", "m", "e", ":", "/">> \o <<"g">> \o Sha \o <<"g">>,
     <<"1", ":", "n", "a", "m", "e", ":", "/">> \o Rep("b", 63),
     <<"0", ":", ":", "/">> \o Rep("b", 60) \o DotScope,
     <<"0", ":", ":", "/">> \o <<"x", "/", "c">> \o Sha2,
     <<"0", ":">> \o Sha \o <<":", "/", "n", "o", "n", "e">>,
     <<"0", ":", ":", "/">> \o <<"a", ":">> \o Sha,
     <<"0", ":", ":", "/", "x", "-">> \o Sha \o DotScope \o <<"/">> \o Sha2}

\* one line, or two lines each ended by a newline
CgroupBufs ==
    CgroupLines \cup
    {l1 \o <<"\n">> \o l2 \o <<"\n">> : l1 \in CgroupLines, l2 \in CgroupLines}

\* parse_cgroup_buf(buf)
cgroup_buf(buf) ==
    /\ pp' = [fn |-> "parse_cgroup_buf", buf |-> buf, out |-> parse_cgroup_buf(buf)]
    /\ UNCHANGED <<table, ord, records, kq>>

NextCgroup == \E buf \in CgroupBufs : cgroup_buf(buf)

SpecCgroup == Init /\ [][NextCgroup]_vars

\* ================================================================ claims
LiveOrders == UNION {Orders(S) : S \in SUBSET Pids}
Range(f) == {f[x] : x \in DOMAIN f}
HasEntry(m, k) == MapGet(m, k) # None
StoredKeys(m) == {m[i].k : i \in 1..Len(m)}
Reverse(o) == IF o = "Less" THEN "Greater" ELSE IF o = "Greater" THEN "Less" ELSE "Equal"
Min(S) == CHOOSE x \in S : \A y \in S : x <= y
\* k is in the list and no key of the list compares Greater than it
Greatest(keys, k) ==
    /\ k \in Range(keys)
    /\ \A k2 \in Range(keys) : cmp(k2, k) # "Greater"

\* keys visited from k along parent_key links
RECURSIVE ChainKeys(_, _, _)
ChainKeys(m, k, seen) ==
    IF k \in seen THEN seen
    ELSE LET g == MapGet(m, k)
         IN IF g = None \/ g[1].parent_key = None THEN seen \cup {k}
            ELSE ChainKeys(m, g[1].parent_key[1], seen \cup {k})

\* a step of add_process, the EventID it was given and the process it stored
AddStep == used' # used
NewId == CHOOSE id \in used' \ used : TRUE
NewProc == MapGet(procs', Event(NewId[1], NewId[2]))[1]

\* C1: after expire() returns, for every live pid with an entry in by_pid,
\* the process keyed by by_pid[p].last() and every process reached from it
\* along parent_key links are still in procs.
C1_ExpireRetainsAncestors ==
    \A live \in LiveOrders :
        LET r == expire_result(live)
        IN ~r.hung =>
             \A p \in Range(live) \cap DOMAIN by_pid :
                 \A k \in ChainKeys(procs, by_pid[p][Len(by_pid[p])], {}) :
                     HasEntry(r.procs, k)

\* C2: every ProcKey contained in any by_pid list is a key of procs.
C2_ByPidKeysInProcs ==
    \A p \in DOMAIN by_pid : \A i \in 1..Len(by_pid[p]) :
        by_pid[p][i] \in StoredKeys(procs)

\* C3: the parent_key of every process stored in procs, when present, is a
\* key that procs holds (no dangling parent links).
C3_NoDanglingParent ==
    \A i \in 1..Len(procs) :
        procs[i].v.parent_key # None => HasEntry(procs, procs[i].v.parent_key[1])

\* C4: add_process gives the new process exactly the labels of its resolved
\* parent that are in propagate_labels, plus the labels label_exe returns
\* for exe.
C4_AddProcessPropagatesLabels ==
    [][AddStep =>
        LET pk == LastKey(by_pid, NewProc.ppid[1])
            parent == IF pk = None THEN None ELSE MapGet(procs, pk[1])
            inherited == IF parent = None THEN {}
                         ELSE parent[1].labels \cap propagate_labels
            matched == IF NewProc.exe = None THEN {}
                       ELSE label_exe_matches(NewProc.exe[1])
        IN NewProc.labels = inherited \cup matched]_vars

\* C5: Time(t) compares strictly less than Event(t, s), and Event(t, s)
\* strictly greater than Time(t), for every t and s.
C5_TimeBeforeEventOnTie ==
    (ord.a.tag = "Time" /\ ord.b.tag = "Event" /\ ord.a.ts = ord.b.ts)
        => (ord.ab = "Less" /\ ord.ba = "Greater")

\* C6: cmp is a total order over keys of both variants: Equal iff
\* structurally equal, cmp(a,b) the reverse of cmp(b,a), and transitive.
C6_TotalOrder ==
    /\ (ord.ab = "Equal") <=> (ord.a = ord.b)
    /\ ord.ab = Reverse(ord.ba)
    /\ (ord.ab # "Greater" /\ ord.bc # "Greater") => ord.ac # "Greater"

\* C7: every by_pid list is sorted in non-decreasing ProcKey order in every
\* reachable state (after every public mutation).
C7_ByPidSorted ==
    \A p \in DOMAIN by_pid : \A i, j \in 1..Len(by_pid[p]) :
        i < j => cmp(by_pid[p][i], by_pid[p][j]) # "Greater"

\* C7 witness: a list that the sort has reordered
C7_Witness ==
    \E p \in DOMAIN by_pid : Len(by_pid[p]) >= 2 /\ by_pid[p] # hist[p]

\* C8 (as claimed): add_process sets parent_key to the generation of ppid
\* that was inserted most recently, None when ppid has no entry.
C8_ParentIsMostRecentlyInserted ==
    [][AddStep =>
        LET ppid == NewProc.ppid[1]
        IN NewProc.parent_key =
             (IF ppid \in DOMAIN hist THEN Some(hist[ppid][Len(hist[ppid])]) ELSE None)]_vars

\* C8 (amended): add_process sets parent_key to the generation of ppid with
\* the greatest ProcKey in by_pid[ppid] at the time of the call, whatever the
\* order in which the generations were inserted; None when ppid has no entry.
C8_ParentIsGreatestKey ==
    [][AddStep =>
        LET ppid == NewProc.ppid[1]
        IN IF ppid \in DOMAIN by_pid
           THEN /\ NewProc.parent_key # None
                /\ Greatest(by_pid[ppid], NewProc.parent_key[1])
           ELSE NewProc.parent_key = None]_vars

\* C8 witness: a child whose parent_key is the last key of its parent's
\* list although another generation of the parent was inserted later
C8_Witness ==
    \E i \in 1..Len(procs) :
        LET c == procs[i].v
        IN /\ c.ppid # None /\ c.parent_key # None
           /\ c.ppid[1] \in DOMAIN by_pid
           /\ Len(by_pid[c.ppid[1]]) >= 2
           /\ c.parent_key = LastKey(by_pid, c.ppid[1])
           /\ c.parent_key # LastKey(hist, c.ppid[1])

\* C9: get_process(pid) is the process inserted for this pid under the
\* greatest ProcKey of the pid's retained generations, None when the pid has
\* no entry.
C9_GetProcessLatestGeneration ==
    \A pid \in Pids :
        LET r == get_process(pid)
        IN IF pid \notin DOMAIN by_pid THEN r = None
           ELSE /\ r # None
                /\ r[1].for_pid = pid
                /\ Greatest(by_pid[pid], r[1].key)

\* C10: get_pid_before(pid, t) is the first entry of by_pid[pid], in list
\* order, whose key time is strictly less than t; None when the pid is
\* unknown or no generation has time < t.
C10_GetPidBeforeFirstEarlier ==
    \A pid \in Pids : \A t \in 0..(MaxTime + 1) :
        LET r == get_pid_before(pid, t)
        IN IF pid \notin DOMAIN by_pid THEN r = None
           ELSE LET keys == by_pid[pid]
                    earlier == {i \in 1..Len(keys) : time(keys[i]) < t}
                IN IF earlier = {} THEN r = None
                   ELSE r # None /\ r = MapGet(procs, keys[Min(earlier)])

\* C10 witness: a pid with two generations, one started exactly at t and
\* skipped, an earlier one returned
C10_Witness ==
    \E pid \in DOMAIN by_pid : \E t \in Times :
        /\ Len(by_pid[pid]) >= 2
        /\ \E i \in 1..Len(by_pid[pid]) : time(by_pid[pid][i]) = t
        /\ get_pid_before(pid, t) # None

\* C11: when several generations of pid have start time < t,
\* get_pid_before(pid, t) returns the one with the latest start time below t
\* (the generation alive at t).
C11_GetPidBeforeLatestBelow ==
    \A pid \in DOMAIN by_pid : \A t \in 0..(MaxTime + 1) :
        LET keys == by_pid[pid]
            below == {i \in 1..Len(keys) : time(keys[i]) < t}
            r == get_pid_before(pid, t)
        IN below # {} =>
             /\ r # None
             /\ \A i \in below : time(keys[i]) <= time(r[1].key)

\* a step of a label operation; LabelsOf is the label set of the entry that
\* get_mut(k) resolves to
LabelStep == nlabels' # nlabels
LabelsOf(m, k) == MapGet(m, k)[1].labels

\* C12 (as claimed): for every key k present and every label L, already in
\* the process's label set or not, add_label(k, L) followed by
\* remove_label(k, L) leaves the label set as it was before the two calls.
C12_AddRemoveLabelRoundTrip ==
    [][LabelStep =>
        \A k \in ProcKeys, L \in Labels :
            (HasEntry(procs, k) /\ procs' = LabelsInsert(procs, k, L))
                => LabelsOf(LabelsRemove(procs', k, L), k) = LabelsOf(procs, k)]_vars

\* C12 (amended): add_label(k, L) followed by remove_label(k, L) leaves the
\* label set without L: unchanged when L was not in it before, and with L
\* removed when it was; no other label and no other process changes.
C12_AddRemoveLabelLeavesWithout ==
    [][LabelStep =>
        \A k \in ProcKeys, L \in Labels :
            (HasEntry(procs, k) /\ procs' = LabelsInsert(procs, k, L))
                => LET after == LabelsRemove(procs', k, L)
                   IN /\ LabelsOf(after, k) = LabelsOf(procs, k) \ {L}
                      /\ L \notin LabelsOf(procs, k) => after = procs]_vars

\* C12 witness: add_label has put a label on a process whose exe gives it
\* none (the label was not in the set before)
C12_Witness ==
    /\ nlabels = 1
    /\ \E i \in 1..Len(procs), L \in Labels :
          /\ L \in procs[i].v.labels
          /\ (procs[i].v.exe = None \/ L \notin label_exe_matches(procs[i].v.exe[1]))

\* a step of init_from_proc (on the default table, before any other call)
InitStep == pc = "new" /\ pc' = "idle" /\ used' = used /\ nlabels' = nlabels

\* C13: init_from_proc leaves one Process per enumerated pid: procs holds as
\* many entries as pids were enumerated, and get_process(p) is the entry
\* with key Time(starttime), ppid = None, parent_key = None and p's own
\* comm / exe / container id, also when two pids share a start time.
C13_InitOneProcessPerPid ==
    [][InitStep =>
        /\ Len(procs') = Cardinality(DOMAIN by_pid')
        /\ \A p \in DOMAIN by_pid' :
              LET k == by_pid'[p][Len(by_pid'[p])]
                  r == MapGet(procs', k)
                  pi == ProcPidInfo(p, time(k))
              IN /\ k.tag = "Time"
                 /\ r # None
                 /\ r[1].key = k
                 /\ r[1].ppid = None /\ r[1].parent_key = None
                 /\ r[1].comm = pi.comm /\ r[1].exe = pi.exe
                 /\ r[1].container_info =
                        (IF pi.container_id = None THEN None
                         ELSE Some(ContainerInfo(pi.container_id[1])))]_vars

\* C14: when get_pids() fails, expire() changes nothing: procs (every
\* process's fields included) and by_pid are exactly as before the call.
C14_ExpireErrNoOp ==
    [][expire_err => (procs' = procs /\ by_pid' = by_pid /\ hist' = hist)]_vars

\* C14 witness: a table with entries on which expire() may be called, and
\* which an expire() with a readable but empty /proc would prune
C14_Witness ==
    /\ pc = "idle"
    /\ Len(procs) >= 2
    /\ ~expire_result(<<>>).hung
    /\ expire_result(<<>>).procs # procs

\* a step of rec.extend(other) with a non-empty other
ExtendStep == other # Record_default /\ other' = Record_default

\* C15: Record::extend(other) preserves the concatenation of iterated
\* pairs: iterating the merged record yields self's former pairs followed by
\* other's pairs, every slice (Str values, and the Str keys and Str values
\* inside Map values) resolving to the bytes it resolved to before.
C15_ExtendPreservesPairs ==
    [][ExtendStep =>
        LogicalPairs(Iter(rec')) =
            LogicalPairs(Iter(rec)) \o LogicalPairs(Iter(other))]_vars

\* a step of rec.push(kv), and the pair it was given
PushStep == rec_log' # rec_log /\ other' = other
Pushed == rec_log'[Len(rec_log')]

\* C16: iterating a record after a push yields what iterating it before
\* yielded, followed by the pushed (K, V) pair with the variant, quote and
\* bytes that were pushed: pairs come out in insertion order, and a later
\* push never changes what an earlier value resolves to.
C16_PushPreservesPairs ==
    [][PushStep =>
        LogicalPairs(Iter(rec')) = Append(LogicalPairs(Iter(rec)), Pushed)]_vars

\* C16 witness: a record of pushed pairs only, a Map with Str key and value
\* first and a Str after it, that iterates to the pairs pushed
C16_Witness ==
    /\ Len(rec.elems) >= 2
    /\ rec.elems[1][2].t = "Map" /\ rec.elems[1][2].kv[1][1].t = "Str"
    /\ rec.elems[2][2].t = "Str" /\ rec.elems[2][2].x.start >= 2
    /\ LogicalPairs(Iter(rec)) = rec_log

\* C17: two Keys compare equal iff their canonical textual forms are equal
\* as bytes, across variants (Name("pid"), Common(Pid) and Literal("pid")
\* all equal; NameTranslated("uid") equal to Name("UID")).
C17_KeyEqIffSameText ==
    kq.eq <=> (Display(kq.a) = Display(kq.b))

\* C18: parse_proc_pid returns a ProcPidInfo or an Err for any content of
\* /proc/<pid>/stat and /proc/<pid>/comm; it never aborts (panics).
C18_ParseProcPidNeverPanics ==
    pp.fn = "parse_proc_pid" => pp.out.res \in {"Ok", "Err"}

\* the fragments parse_cgroup_buf looks at, in scanning order: for each line
\* with at least three ':'-separated fields, the '/'-separated pieces of
\* the third field, a trailing ".scope" stripped
Stripped(f) == IF ends_with(f, DotScope) THEN SubSeq(f, 1, Len(f) - Len(DotScope)) ELSE f
RECURSIVE Flatten(_)
Flatten(ss) == IF ss = <<>> THEN <<>> ELSE Head(ss) \o Flatten(Tail(ss))
ThirdFields(buf) ==
    LET lines == Split(buf, "\n")
    IN [i \in DOMAIN lines |->
          LET fields == Split(lines[i], ":")
          IN IF Len(fields) < 3 THEN <<>>
             ELSE LET fr == Split(fields[3], "/") IN [j \in DOMAIN fr |-> Stripped(fr[j])]]
Fragments(buf) == Flatten(ThirdFields(buf))
Last64(f) == SubSeq(f, Len(f) - 63, Len(f))
First64(f) == SubSeq(f, 1, 64)
Qualifies(f) == Len(f) >= 64 /\ (AllHex(Last64(f)) \/ AllHex(First64(f)))

\* C19: parse_cgroup_buf never returns an error and returns the first hit
\* in scanning order: the last 64 bytes of the first qualifying fragment
\* when they are all hex, else its first 64 bytes; None when no fragment
\* qualifies (lines with fewer than three fields have no fragments).
C19_ParseCgroupFirstHit ==
    pp.fn = "parse_cgroup_buf" =>
        LET fr == Fragments(pp.buf)
            hits == {i \in DOMAIN fr : Qualifies(fr[i])}
        IN /\ pp.out.res = "Ok"
           /\ IF hits = {} THEN pp.out.v = None
              ELSE LET f == fr[Min(hits)]
                   IN pp.out.v = Some(IF AllHex(Last64(f)) THEN Last64(f) ELSE First64(f))

\* C19 witness: a skipped line, then two qualifying fragments with different
\* ids, the first of which is returned from its trailing 64 bytes
C19_Witness ==
    /\ pp.fn = "parse_cgroup_buf"
    /\ Len(Split(Split(pp.buf, "\n")[1], ":")) < 3
    /\ LET fr == Fragments(pp.buf)
           hits == {i \in DOMAIN fr : Qualifies(fr[i])}
       IN /\ \E i \in hits, j \in hits : fr[i] # fr[j]
          /\ Len(fr[Min(hits)]) > 64
          /\ ~AllHex(First64(fr[Min(hits)]))
          /\ pp.out.v = Some(Last64(fr[Min(hits)]))

\* C20: every Process stored in procs has its key field equal to the map
\* key under which it is stored, also when an Event key and a Time key
\* carry the same timestamp.
C20_ProcessKeyIsMapKey ==
    \A i \in 1..Len(procs) : procs[i].v.key = procs[i].k

\* the Ranges a stored value holds: of a Str, and of the Str keys and Str
\* values of a Map
RangesOf(v) ==
    CASE v.t = "Str" -> {v.x}
      [] v.t = "Map" ->
            {v.kv[i][1].x : i \in {j \in DOMAIN v.kv : v.kv[j][1].t = "Str"}}
            \cup {v.kv[i][2].x : i \in {j \in DOMAIN v.kv : v.kv[j][2].t = "Str"}}
      [] OTHER -> {}
ExecveFree(r) ==
    \A i \in DOMAIN r.elems :
        r.elems[i][2].t \notin {"Segments", "Skipped", "List", "StringifiedList"}
InBounds(r) ==
    \A i \in DOMAIN r.elems : \A x \in RangesOf(r.elems[i][2]) :
        x.start <= x.end /\ x.end <= Len(r.raw)

\* C21: after any sequence of push, put and extend on records without
\* Segments, Skipped or List values, every Range held by a value in elems (Str
\* ranges, and the Str keys and Str values inside Map values) satisfies
\* start <= end <= raw.len(), in the record being built and in the one that
\* is merged into it.
C21_RangesInBounds ==
    /\ ExecveFree(rec) => InBounds(rec)
    /\ ExecveFree(other) => InBounds(other)

\* C21 witness: a merged record whose raw holds bytes given by put, those of
\* its own pushed Str and those of a merged Map: the Map's Str value was
\* moved behind the Map's Str key, which kept the range it had before
C21_Witness ==
    /\ ExecveFree(rec)
    /\ Len(rec.elems) >= 2
    /\ rec.elems[1][2].t = "Str" /\ rec.elems[1][2].x.start > 0
    /\ \E i \in DOMAIN rec.elems :
          /\ rec.elems[i][2].t = "Map"
          /\ \E j \in DOMAIN rec.elems[i][2].kv :
                /\ rec.elems[i][2].kv[j][1].t = "Str"
                /\ rec.elems[i][2].kv[j][2].t = "Str"
                /\ rec.elems[i][2].kv[j][2].x.start > rec.elems[i][2].kv[j][1].x.end
                /\ rec.elems[i][2].kv[j][2].x.end = Len(rec.raw)

\* C22: expire() terminates on every table reachable by init_from_proc, then
\* add_process calls with pairwise distinct EventIDs, label operations and
\* earlier expire calls, for every set of live pids: the walk along
\* parent_key links never comes back to a key it left, also when an event
\* timestamp equals the start time of a process taken from /proc.
C22_ExpireTerminates ==
    \A live \in LiveOrders : ~expire_result(live).hung

\* C23: add_process with an EventID not used by any earlier add_process adds
\* exactly one entry to procs and leaves every previously stored process
\* (key, ppid, parent_key, labels, comm, exe, container_info) and every
\* other pid's by_pid list unchanged, including processes stored by
\* init_from_proc under a Time key with the same timestamp.
C23_AddProcessFrame ==
    [][AddStep =>
        /\ Len(procs') = Len(procs) + 1
        /\ \A i \in 1..Len(procs) :
              \E j \in 1..Len(procs') : procs'[j] = procs[i]
        /\ \A p \in DOMAIN by_pid :
              p # NewProc.for_pid => (p \in DOMAIN by_pid' /\ by_pid'[p] = by_pid[p])]_vars

\* the processes expire() is to keep for the live pids: the entries of procs
\* found from by_pid[p].last() of a live pid p and along parent_key links
Relevant(live) ==
    UNION {ChainKeys(procs, by_pid[p][Len(by_pid[p])], {}) :
              p \in Range(live) \cap DOMAIN by_pid}
EntryOf(m, k) == {i \in 1..Len(m) : cmp(m[i].k, k) = "Equal"}

\* C24: expire() only removes entries and removes everything no longer
\* relevant: after it returns, every process left in procs was present
\* before with unchanged fields and is the latest generation of some live
\* pid or reachable from one by parent_key links; no by_pid list is empty
\* and no by_pid list contains a removed key.
C24_ExpireOnlyRemovesIrrelevant ==
    \A live \in LiveOrders :
        LET r == expire_result(live)
        IN ~r.hung =>
             /\ \A j \in 1..Len(r.procs) :
                   /\ \E i \in 1..Len(procs) : procs[i] = r.procs[j]
                   /\ \E k \in Relevant(live) : j \in EntryOf(r.procs, k)
             /\ \A p \in DOMAIN r.by_pid :
                   /\ r.by_pid[p] # <<>>
                   /\ \A i \in 1..Len(r.by_pid[p]) :
                         HasEntry(procs, r.by_pid[p][i]) => HasEntry(r.procs, r.by_pid[p][i])

\* C24 witness: a table and live pids for which expire() returns, removes
\* entries of procs, drops a pid from by_pid, shortens the list of another
\* pid, and keeps the latest generation of a live pid
C24_Witness ==
    \E live \in LiveOrders :
        LET r == expire_result(live)
            latest == {by_pid[p][Len(by_pid[p])] : p \in Range(live) \cap DOMAIN by_pid}
        IN /\ ~r.hung
           /\ Len(r.procs) < Len(procs)
           /\ DOMAIN r.by_pid # DOMAIN by_pid
           /\ \E p \in DOMAIN r.by_pid : Len(r.by_pid[p]) < Len(by_pid[p])
           /\ \E j \in 1..Len(r.procs) : \E k \in latest : j \in EntryOf(r.procs, k)

====
